---- MODULE Spec2Model ----
(***************************************************************************)
(* Order subsystem of the oceans-react-challenge backend.                  *)
(*                                                                         *)
(*   authenticateToken      backend/src/middleware/authMiddleware.ts       *)
(*   createOrderHandler     backend/src/controllers/orderController.ts     *)
(*   getOrders              backend/src/controllers/orderController.ts     *)
(*   createOrder            models/orderModel   (src/unnamed/part_002)     *)
(*   getAllOrdersWithDetails models/orderModel  (src/unnamed/part_002)     *)
(*   tables orders, order_items                 (src/unnamed/part_010)     *)
(*                                                                         *)
(* Every request runs as its own asynchronous flow.  An action is what one *)
(* flow does from the resolution of one await up to the next await: node   *)
(* runs that stretch without interleaving.  The effect of a statement on   *)
(* the database happens in the action in which its await resolves.         *)
(*                                                                         *)
(* Money is counted in thousandths of a currency unit (1500 is 1.50, 4 is  *)
(* 0.004).  The columns total and price_at_time are DECIMAL(10, 2): the    *)
(* database rounds what it stores to whole hundredths, i.e. to multiples   *)
(* of 10.  The sum computed by createOrder is taken to be exact: the       *)
(* rounding error of binary floating point is below what is modelled.      *)
(*                                                                         *)
(* An optional JSON field is a sequence: <<>> when absent, <<v>> when the  *)
(* client supplied v.                                                      *)
(*                                                                         *)
(* The datastore is PostgreSQL with the schema of init.sql.  A statement   *)
(* may fail for a reason outside the program (lost connection, timeout):   *)
(* every await of the datastore resolves or rejects.  A rejected COMMIT    *)
(* and a rejected ROLLBACK leave the transaction uncommitted.  A failed    *)
(* INSERT is taken not to advance the SERIAL of its table.  The column     *)
(* created_at is left out.                                                 *)
(***************************************************************************)
EXTENDS Integers, Sequences, FiniteSets, TLC

VARIABLES
    orders,              \* committed rows of table orders
    order_items,         \* committed rows of table order_items
    orders_id_seq,       \* next value of the SERIAL of orders.id
    order_items_id_seq,  \* next value of the SERIAL of order_items.id
    checkedOut,          \* pool: number of clients checked out
    pc,                  \* per request slot: the await the flow is suspended at
    req,                 \* per slot: the HTTP request (headers and body)
    user,                \* per slot: req.user.id set by authenticateToken
    client,              \* per slot: the client of createOrder
    tx,                  \* per slot: the transaction on that client
    order,               \* per slot: local `order` of createOrder
    items,               \* per slot: local `items` of createOrder
    calls,               \* per slot: datastore calls issued so far, in order
    res,                 \* per slot: the HTTP response sent
    served,              \* number of requests accepted so far
    products,            \* committed rows of table products
    products_id_seq,     \* next value of the SERIAL of products.id
    users,               \* committed rows of table users
    users_id_seq,        \* next value of the SERIAL of users.id
    regPc,               \* per register flow: the await it is suspended at
    regReq,              \* per register flow: req.body
    regTx,               \* per register flow: the transaction of createUser
    regRes,              \* per register flow: the HTTP response sent
    registered,          \* number of register requests accepted so far
    localStorage,        \* browser: window.localStorage, key -> value
    auth,                \* browser: the state of AuthProvider
    authorization,       \* browser: api.defaults.headers.common.Authorization
    location,            \* browser: the page shown
    inFlight,            \* browser: Authorization headers of the requests awaiting a response
    cartItems,           \* CreateOrder page: the state orderItems
    alerted,             \* CreateOrder page: the last handler called alert()
    queryResult,         \* getAllOrdersWithDetails: result.rows of one query
    returned             \* getAllOrdersWithDetails: what it returned for them

orderVars == <<orders, order_items, orders_id_seq, order_items_id_seq, checkedOut,
               pc, req, user, client, tx, order, items, calls, res, served>>

catalogVars == <<products, products_id_seq>>

registerVars == <<users, users_id_seq, regPc, regReq, regTx, regRes, registered>>

browserVars == <<localStorage, auth, authorization, location, inFlight>>

cartVars == <<cartItems, alerted>>

groupingVars == <<queryResult, returned>>

vars == <<orderVars, catalogVars, registerVars, browserVars, cartVars, groupingVars>>

\* what the order routes leave alone
outsideOrders == <<catalogVars, registerVars, browserVars, cartVars, groupingVars>>

----------------------------------------------------------------------------
(* Bounds *)

\* request flows that can be in flight at the same time
MaxInFlight == 2

\* requests accepted in one behaviour
MaxRequests == 3

Slots == 1..MaxInFlight

----------------------------------------------------------------------------
(* Values *)

None == <<>>
Some(v) == <<v>>

\* users that hold a token signed by login
UserIds == {1, 2}

\* ids of the rows of table products that exist from the start (product_id is
\* a foreign key to products.id)
Catalog == {1}

\* the unit price of those products in the catalog
CatalogPrice == 2000

\* JavaScript truthiness of a number-valued optional field: undefined and 0
\* are falsy
Falsy(f) == f = None \/ f[1] = 0

\* `f || d`
OrDefault(f, d) == IF Falsy(f) THEN d ELSE f[1]

\* an element of orderItems: null, or an object with the fields the client
\* supplied
RawItem(p, q, pr) ==
    [null |-> FALSE, id |-> None, order_id |-> None, product_id |-> p,
     quantity |-> q, price_at_time |-> pr]

ItemNull ==
    [null |-> TRUE, id |-> None, order_id |-> None, product_id |-> None,
     quantity |-> None, price_at_time |-> None]

ItemPlain     == RawItem(Some(1), Some(2), Some(1500))
ItemSubCent   == RawItem(Some(1), Some(3), Some(4))
ItemZeroQty   == RawItem(Some(1), Some(0), Some(1500))
ItemDefaults  == RawItem(Some(1), None, None)
ItemNegQty    == RawItem(Some(1), Some(-1), Some(1500))
ItemNegPrice  == RawItem(Some(1), Some(1), Some(-1000))
ItemNoProduct == RawItem(None, Some(1), Some(1000))

\* ItemPlain sent with the fields id and order_id of IOrderItem filled in
ItemWithIds   == [ItemPlain EXCEPT !.id = Some(3), !.order_id = Some(3)]

\* req.body.orderItems: absent, present but no array, or an array
NoItems     == [kind |-> "absent", elems |-> <<>>]
NotAnArray  == [kind |-> "object", elems |-> <<>>]
ArrayOf(s)  == [kind |-> "array", elems |-> s]

Bodies ==
    {NoItems, NotAnArray, ArrayOf(<<>>)}
    \cup {ArrayOf(<<i>>) : i \in {ItemPlain, ItemSubCent, ItemZeroQty, ItemDefaults,
                                  ItemNegQty, ItemNegPrice, ItemNoProduct, ItemNull,
                                  ItemWithIds}}
    \cup {ArrayOf(<<ItemPlain, ItemDefaults>>), ArrayOf(<<ItemPlain, ItemNegQty>>),
          ArrayOf(<<ItemZeroQty, ItemPlain>>)}

\* a value that is null in JavaScript (localStorage.getItem of a missing key,
\* a React state set to null)
Null == "null"

\* the keys of localStorage the frontend reads, writes or removes
StorageKeys == {"authToken", "username", "userRole", "token", "user"}

\* req.body of POST /auth/register
Registration(username, passwordLength) ==
    [username |-> username, passwordLength |-> passwordLength]

NoRegistration == Registration("", 0)

\* no row of table users
NoUser == [id |-> 0, username |-> ""]

\* Authorization header: missing, present with a token that jwt.verify rejects,
\* a signed token whose payload has no id, a signed token of user id
NoHeader       == [kind |-> "none", id |-> 0]
InvalidToken   == [kind |-> "invalid", id |-> 0]
TokenWithoutId == [kind |-> "noid", id |-> 0]
TokenOf(u)     == [kind |-> "valid", id |-> u]

\* the body field user_id is one a client may add; no code reads it
Request(kind, token, bodyUser, orderItems) ==
    [kind |-> kind, token |-> token,
     body |-> [user_id |-> bodyUser, orderItems |-> orderItems]]

\* the requests of the model: every body from user 1, one plain order from
\* user 2, one order whose body names another user, the listings of both
\* users, and one request for each way authenticateToken refuses
Requests ==
    {Request("create", TokenOf(1), None, b) : b \in Bodies}
    \cup {Request("create", TokenOf(2), None, ArrayOf(<<ItemPlain>>)),
          Request("create", TokenOf(1), Some(2), ArrayOf(<<ItemPlain>>)),
          Request("create", NoHeader, None, ArrayOf(<<ItemPlain>>)),
          Request("create", TokenWithoutId, None, ArrayOf(<<ItemPlain>>)),
          Request("list", InvalidToken, None, NoItems),
          Request("list", TokenOf(1), None, NoItems),
          Request("list", TokenOf(2), None, NoItems)}

NoRequest == Request("none", NoHeader, None, NoItems)

NoOrder == [id |-> 0, user_id |-> 0, total |-> 0, status |-> "none"]

NoTx == [state |-> "none", orders |-> {}, items |-> {}]

NoResponse == [status |-> 0, message |-> "", error |-> "", body |-> <<>>]

Response(status, message, error, body) ==
    [status |-> status, message |-> message, error |-> error, body |-> body]

----------------------------------------------------------------------------
(* authenticateToken *)

\* a middleware that does not look for the id in the payload
AuthStatusPayloadUnchecked(token) ==
    IF token.kind = "none" THEN 401
    ELSE IF token.kind = "invalid" THEN 403
    ELSE 0

AuthStatus(token) ==
    IF token.kind = "none" THEN 401
    ELSE IF token.kind = "invalid" THEN 403
    ELSE IF token.kind = "noid" THEN 403
    ELSE 0

AuthMessage(token) ==
    IF token.kind = "none" THEN "No token or invalid format"
    ELSE IF token.kind = "invalid" THEN "Invalid or expired token"
    ELSE "Invalid token payload"

----------------------------------------------------------------------------
(* createOrderHandler: validation *)

NormalizeItem(item) ==
    [id            |-> OrDefault(item.id, 0),
     order_id      |-> OrDefault(item.order_id, 0),
     product_id    |-> item.product_id,
     quantity      |-> OrDefault(item.quantity, 1),
     price_at_time |-> OrDefault(item.price_at_time, 0)]

ItemAccepted(item) == item.quantity > 0 /\ item.price_at_time >= 0

ValidItems(elems) ==
    SelectSeq([i \in DOMAIN elems |-> NormalizeItem(elems[i])], ItemAccepted)

\* `item.id` of a null element throws a TypeError inside orderItems.map
MapThrows(elems) == \E i \in DOMAIN elems : elems[i].null

TypeErrorText == "Cannot read properties of null (reading 'id')"

\* `!orderItems || !Array.isArray(orderItems) || orderItems.length === 0`
ItemsMissing(orderItems) ==
    orderItems.kind # "array" \/ Len(orderItems.elems) = 0

\* the owner taken from the request body when the body names one
OwnerFromBody(request, verifiedId) ==
    IF request.body.user_id # None THEN request.body.user_id[1] ELSE verifiedId

\* the identity createOrder is called with: req.user.id
OwnerOf(request, verifiedId) == verifiedId

----------------------------------------------------------------------------
(* The datastore: columns, constraints, transactions *)

\* DECIMAL(10, 2): a value is stored rounded to hundredths, half away from zero
Numeric(m) ==
    IF m >= 0 THEN ((m + 5) \div 10) * 10 ELSE -(((-m) + 5) \div 10) * 10

\* DECIMAL(10, 2): at most 8 digits before the decimal point
NumericFits(m) ==
    /\ Numeric(m) \div 1000 < 100000000
    /\ (-Numeric(m)) \div 1000 < 100000000

\* createOrder without its BEGIN: every statement commits on its own
BeginTxMissing == "none"

\* state of the transaction after BEGIN
BeginTx == "open"

\* what the statements of a connection see: committed rows and the rows its
\* own transaction wrote
VisibleOrders(t) == orders \cup t.orders
VisibleItems(t) == order_items \cup t.items

\* READ UNCOMMITTED: the rows of open transactions are visible to everybody
ReadUncommitted(rows) == rows

\* what a statement on another connection sees of the rows a transaction
\* wrote and has not committed
VisibleToOthers(rows) == {}

----------------------------------------------------------------------------
(* createOrder: the values it computes *)

RECURSIVE Flat(_)
Flat(ss) == IF ss = <<>> THEN <<>> ELSE Head(ss) \o Flat(Tail(ss))

RECURSIVE SumSeq(_)
SumSeq(s) == IF s = <<>> THEN 0 ELSE Head(s) + SumSeq(Tail(s))

\* tuples that take the quantity from the item's id when the client sent one
itemValuesQuantityFromId(orderItems) ==
    [i \in DOMAIN orderItems |->
        <<orderItems[i].product_id,
          IF orderItems[i].id # 0 THEN orderItems[i].id ELSE orderItems[i].quantity,
          orderItems[i].price_at_time>>]

itemValues(orderItems) ==
    [i \in DOMAIN orderItems |->
        <<orderItems[i].product_id, orderItems[i].quantity,
          orderItems[i].price_at_time>>]

\* `orderItems.reduce((sum, item) => sum + item.quantity * item.price_at_time, 0)`
total(orderItems) ==
    SumSeq([i \in DOMAIN orderItems |->
              orderItems[i].quantity * orderItems[i].price_at_time])

\* parameters that name the header inserted last by any call
itemParamsOfLatestOrder(o, orderItems) ==
    <<orders_id_seq - 1>> \o Flat(itemValues(orderItems))

itemParams(o, orderItems) == <<o.id>> \o Flat(itemValues(orderItems))

\* the placeholders of the i-th tuple of VALUES (index = i - 1):
\* ($1, $(index*3+2), $(index*3+3), $(index*3+4))
Placeholders(i) == <<1, (i - 1) * 3 + 2, (i - 1) * 3 + 3, (i - 1) * 3 + 4>>

\* the header inserted with another status of the CHECK constraint
OrderRowCompleted(userId, t) ==
    [id |-> orders_id_seq, user_id |-> userId, total |-> Numeric(t),
     status |-> "completed"]

\* the row INSERT INTO orders (user_id, total, status) produces
OrderRow(userId, t) ==
    [id |-> orders_id_seq, user_id |-> userId, total |-> Numeric(t),
     status |-> "pending"]

\* constraints of table orders
OrderRowAccepted(userId, t) == userId \in UserIds /\ NumericFits(t)

\* constraints of table order_items on the i-th tuple: NOT NULL and foreign
\* key of product_id, foreign key of order_id, CHECK (quantity > 0)
ItemTupleAccepted(params, i, t) ==
    LET ph == Placeholders(i) IN
    /\ params[ph[2]] # None
    /\ params[ph[2]][1] \in {p.id : p \in products}
    /\ \E o \in VisibleOrders(t) : o.id = params[ph[1]]
    /\ params[ph[3]] > 0
    /\ NumericFits(params[ph[4]])

\* an INSERT with no tuple after VALUES is a syntax error
ItemsAccepted(params, n, t) ==
    n > 0 /\ \A i \in 1..n : ItemTupleAccepted(params, i, t)

\* the rows the batched INSERT INTO order_items returns, in the order of VALUES
ItemRows(params, n) ==
    [i \in 1..n |->
        LET ph == Placeholders(i) IN
        [id            |-> order_items_id_seq + i - 1,
         order_id      |-> params[ph[1]],
         product_id    |-> params[ph[2]][1],
         quantity      |-> params[ph[3]],
         price_at_time |-> Numeric(params[ph[4]])]]

Range(s) == {s[i] : i \in DOMAIN s}

\* `{ ...order, order_items: items }`
WithItems(o, its) ==
    [id |-> o.id, user_id |-> o.user_id, total |-> o.total, status |-> o.status,
     order_items |-> its]

\* createOrder without client.release()
FinallyWithoutRelease(c) == c

\* the client after the finally block of createOrder
Finally(c) == "released"

RawDbError == "datastore error text"

----------------------------------------------------------------------------
(* getAllOrdersWithDetails: the query and the grouping *)

\* the query without its WHERE clause
WhereAnyUser(o, userId) == TRUE

\* `WHERE o.user_id = $1`
Where(o, userId) == o.user_id = userId

\* the rows a statement of the pool sees: committed rows, and of the open
\* transactions what VisibleToOthers lets through
SeenOrders == orders \cup UNION {VisibleToOthers(tx[s].orders) : s \in Slots}
SeenItems == order_items \cup UNION {VisibleToOthers(tx[s].items) : s \in Slots}

JoinRow(o, item_id, product_id, quantity, price_at_time) ==
    [id |-> o.id, user_id |-> o.user_id, total |-> o.total, status |-> o.status,
     item_id |-> item_id, product_id |-> product_id, quantity |-> quantity,
     price_at_time |-> price_at_time]

\* a join that also reads products and returns the current catalog price
JoinRowsPricedFromCatalog(userId) ==
    LET O == {o \in SeenOrders : Where(o, userId)} IN
    {JoinRow(o, Some(oi.id), Some(oi.product_id), Some(oi.quantity),
             Some((CHOOSE p \in products : p.id = oi.product_id).price))
        : <<o, oi>> \in {p \in O \X SeenItems : p[1].id = p[2].order_id}}
    \cup {JoinRow(o, None, None, None, None)
            : o \in {x \in O : \A oi \in SeenItems : oi.order_id # x.id}}

\* orders o LEFT JOIN order_items oi ON o.id = oi.order_id WHERE o.user_id = $1
JoinRows(userId) ==
    LET O == {o \in SeenOrders : Where(o, userId)} IN
    {JoinRow(o, Some(oi.id), Some(oi.product_id), Some(oi.quantity),
             Some(oi.price_at_time))
        : <<o, oi>> \in {p \in O \X SeenItems : p[1].id = p[2].order_id}}
    \cup {JoinRow(o, None, None, None, None)
            : o \in {x \in O : \A oi \in SeenItems : oi.order_id # x.id}}

\* the query has no ORDER BY: the rows come in any order
RECURSIVE Orderings(_)
Orderings(S) ==
    IF S = {} THEN {<<>>}
    ELSE UNION {{<<x>> \o t : t \in Orderings(S \ {x})} : x \in S}

\* `result.rows.forEach(row => { ... })` on ordersMap
RECURSIVE GroupRows(_, _)
GroupRows(rows, ordersMap) ==
    IF rows = <<>> THEN ordersMap
    ELSE
        LET row == Head(rows)
            m1 == IF row.id \in DOMAIN ordersMap THEN ordersMap
                  ELSE [k \in DOMAIN ordersMap \cup {row.id} |->
                          IF k = row.id
                          THEN [id |-> row.id, user_id |-> row.user_id,
                                total |-> row.total, status |-> row.status,
                                order_items |-> <<>>]
                          ELSE ordersMap[k]]
            m2 == IF Falsy(row.item_id) THEN m1
                  ELSE [m1 EXCEPT ![row.id].order_items =
                          Append(@, [id |-> row.item_id[1], order_id |-> row.id,
                                     product_id |-> row.product_id[1],
                                     quantity |-> row.quantity[1],
                                     price_at_time |-> row.price_at_time[1]])]
        IN GroupRows(Tail(rows), m2)

EmptyMap == [k \in {} |-> 0]

Min(S) == CHOOSE x \in S : \A y \in S : x <= y

\* `Object.values(ordersMap)`: the keys are integers, which an object
\* enumerates in ascending order
RECURSIVE ObjectValues(_)
ObjectValues(m) ==
    IF DOMAIN m = {} THEN <<>>
    ELSE LET k == Min(DOMAIN m) IN
         <<m[k]>> \o ObjectValues([j \in DOMAIN m \ {k} |-> m[j]])

----------------------------------------------------------------------------
(* Actions *)

OrdersInit ==
    /\ orders = {}
    /\ order_items = {}
    /\ orders_id_seq = 1
    /\ order_items_id_seq = 1
    /\ checkedOut = 0
    /\ pc = [r \in Slots |-> "idle"]
    /\ req = [r \in Slots |-> NoRequest]
    /\ user = [r \in Slots |-> 0]
    /\ client = [r \in Slots |-> "none"]
    /\ tx = [r \in Slots |-> NoTx]
    /\ order = [r \in Slots |-> NoOrder]
    /\ items = [r \in Slots |-> <<>>]
    /\ calls = [r \in Slots |-> <<>>]
    /\ res = [r \in Slots |-> NoResponse]
    /\ served = 0

CatalogInit ==
    /\ products = {[id |-> c, price |-> CatalogPrice, stock |-> 5] : c \in Catalog}
    /\ products_id_seq = 2

\* table users holds the administrator that init.sql inserts
RegisterInit ==
    /\ users = {[id |-> 1, username |-> "admin"]}
    /\ users_id_seq = 2
    /\ regPc = [f \in Slots |-> "idle"]
    /\ regReq = [f \in Slots |-> NoRegistration]
    /\ regTx = [f \in Slots |-> NoUser]
    /\ regRes = [f \in Slots |-> NoResponse]
    /\ registered = 0

BrowserInit ==
    /\ localStorage = [k \in StorageKeys |-> Null]
    /\ auth = [token |-> Null, user |-> Null, userRole |-> Null]
    /\ authorization = Null
    /\ location = "/login"
    /\ inFlight = {}

CartInit ==
    /\ cartItems = <<>>
    /\ alerted = FALSE

GroupingInit ==
    /\ queryResult = <<>>
    /\ returned = <<>>

Init ==
    /\ OrdersInit
    /\ CatalogInit
    /\ RegisterInit
    /\ BrowserInit
    /\ CartInit
    /\ GroupingInit

dbVars == <<orders, order_items, orders_id_seq, order_items_id_seq>>

\* the arguments createOrderHandler passes to createOrder
ArgUserId(r) == OwnerOf(req[r], user[r])
ArgOrderItems(r) == ValidItems(req[r].body.orderItems.elems)

\* a request out of Q arrives on a free flow
ReceiveFrom(r, Q) ==
    /\ pc[r] \in {"idle", "done"}
    /\ served < MaxRequests
    /\ \E q \in Q : req' = [req EXCEPT ![r] = q]
    /\ served' = served + 1
    /\ pc' = [pc EXCEPT ![r] = "auth"]
    /\ user' = [user EXCEPT ![r] = 0]
    /\ client' = [client EXCEPT ![r] = "none"]
    /\ tx' = [tx EXCEPT ![r] = NoTx]
    /\ order' = [order EXCEPT ![r] = NoOrder]
    /\ items' = [items EXCEPT ![r] = <<>>]
    /\ calls' = [calls EXCEPT ![r] = <<>>]
    /\ res' = [res EXCEPT ![r] = NoResponse]
    /\ UNCHANGED <<dbVars, checkedOut>>
    /\ UNCHANGED outsideOrders

Receive(r) == ReceiveFrom(r, Requests)

AuthenticateToken(r) ==
    /\ pc[r] = "auth"
    /\ IF AuthStatus(req[r].token) # 0
       THEN /\ res' = [res EXCEPT ![r] =
                  Response(AuthStatus(req[r].token), AuthMessage(req[r].token), "", <<>>)]
            /\ pc' = [pc EXCEPT ![r] = "done"]
            /\ UNCHANGED user
       ELSE /\ user' = [user EXCEPT ![r] = req[r].token.id]
            /\ pc' = [pc EXCEPT ![r] = "handler"]
            /\ UNCHANGED res
    /\ UNCHANGED <<dbVars, checkedOut, req, client, tx, order, items, calls, served>>
    /\ UNCHANGED outsideOrders

\* a handler that validates the way createUser does: inside the
\* transaction, after the client is acquired and BEGIN is issued
CreateOrderHandlerValidatingInTx(r) ==
    /\ pc[r] = "handler"
    /\ req[r].kind = "create"
    /\ LET orderItems == req[r].body.orderItems IN
       IF ItemsMissing(orderItems)
       THEN /\ res' = [res EXCEPT ![r] = Response(400, "Order items are required", "", <<>>)]
            /\ pc' = [pc EXCEPT ![r] = "done"]
            /\ calls' = [calls EXCEPT ![r] = @ \o <<"connect", "BEGIN", "ROLLBACK", "release">>]
       ELSE IF MapThrows(orderItems.elems)
       THEN /\ res' = [res EXCEPT ![r] =
                  Response(500, "Error creating order", TypeErrorText, <<>>)]
            /\ pc' = [pc EXCEPT ![r] = "done"]
            /\ UNCHANGED calls
       ELSE IF Len(ValidItems(orderItems.elems)) # Len(orderItems.elems)
       THEN /\ res' = [res EXCEPT ![r] = Response(400, "Invalid order item data", "", <<>>)]
            /\ pc' = [pc EXCEPT ![r] = "done"]
            /\ calls' = [calls EXCEPT ![r] = @ \o <<"connect", "BEGIN", "ROLLBACK", "release">>]
       ELSE /\ calls' = [calls EXCEPT ![r] = Append(@, "connect")]
            /\ pc' = [pc EXCEPT ![r] = "connect"]
            /\ UNCHANGED res
    /\ UNCHANGED <<dbVars, checkedOut, req, user, client, tx, order, items, served>>
    /\ UNCHANGED outsideOrders

CreateOrderHandler(r) ==
    /\ pc[r] = "handler"
    /\ req[r].kind = "create"
    /\ LET orderItems == req[r].body.orderItems IN
       IF ItemsMissing(orderItems)
       THEN /\ res' = [res EXCEPT ![r] = Response(400, "Order items are required", "", <<>>)]
            /\ pc' = [pc EXCEPT ![r] = "done"]
            /\ UNCHANGED calls
       ELSE IF MapThrows(orderItems.elems)
       THEN /\ res' = [res EXCEPT ![r] =
                  Response(500, "Error creating order", TypeErrorText, <<>>)]
            /\ pc' = [pc EXCEPT ![r] = "done"]
            /\ UNCHANGED calls
       ELSE IF Len(ValidItems(orderItems.elems)) # Len(orderItems.elems)
       THEN /\ res' = [res EXCEPT ![r] = Response(400, "Invalid order item data", "", <<>>)]
            /\ pc' = [pc EXCEPT ![r] = "done"]
            /\ UNCHANGED calls
       ELSE /\ calls' = [calls EXCEPT ![r] = Append(@, "connect")]
            /\ pc' = [pc EXCEPT ![r] = "connect"]
            /\ UNCHANGED res
    /\ UNCHANGED <<dbVars, checkedOut, req, user, client, tx, order, items, served>>
    /\ UNCHANGED outsideOrders

\* `await pool.connect()` resolves or rejects; a rejection leaves createOrder
\* before its try block and reaches the catch of createOrderHandler
Connect(r) ==
    /\ pc[r] = "connect"
    /\ \E ok \in BOOLEAN :
        IF ok
        THEN /\ client' = [client EXCEPT ![r] = "held"]
             /\ checkedOut' = checkedOut + 1
             /\ calls' = [calls EXCEPT ![r] = Append(@, "BEGIN")]
             /\ pc' = [pc EXCEPT ![r] = "begin"]
             /\ UNCHANGED res
        ELSE /\ res' = [res EXCEPT ![r] =
                   Response(500, "Error creating order", RawDbError, <<>>)]
             /\ pc' = [pc EXCEPT ![r] = "done"]
             /\ UNCHANGED <<client, checkedOut, calls>>
    /\ UNCHANGED <<dbVars, req, user, tx, order, items, served>>
    /\ UNCHANGED outsideOrders

\* a catch block that issues the header insert again instead of giving up
CatchAndRetry(r) ==
    /\ calls' = [calls EXCEPT ![r] = Append(@, "INSERT orders")]
    /\ pc' = [pc EXCEPT ![r] = "insertOrder"]

\* a catch block that rethrows without issuing ROLLBACK
CatchWithoutRollback(r) ==
    /\ calls' = calls
    /\ pc' = [pc EXCEPT ![r] = "rollback"]

\* entering the catch block: ROLLBACK is issued
Catch(r) ==
    /\ calls' = [calls EXCEPT ![r] = Append(@, "ROLLBACK")]
    /\ pc' = [pc EXCEPT ![r] = "rollback"]

\* a statement that fails inside a transaction block aborts the transaction
Aborted(t) == IF t.state = "open" THEN [t EXCEPT !.state = "aborted"] ELSE t

Begin(r) ==
    /\ pc[r] = "begin"
    /\ \E ok \in BOOLEAN :
        IF ok
        THEN /\ tx' = [tx EXCEPT ![r].state = BeginTx]
             /\ calls' = [calls EXCEPT ![r] = Append(@, "INSERT orders")]
             /\ pc' = [pc EXCEPT ![r] = "insertOrder"]
        ELSE /\ Catch(r)
             /\ UNCHANGED tx
    /\ UNCHANGED <<dbVars, checkedOut, req, user, client, order, items, res, served>>
    /\ UNCHANGED outsideOrders

InsertOrder(r) ==
    /\ pc[r] = "insertOrder"
    /\ LET t == total(ArgOrderItems(r))
           row == OrderRow(ArgUserId(r), t) IN
       \E ok \in BOOLEAN :
        IF ok /\ OrderRowAccepted(ArgUserId(r), t)
        THEN /\ IF tx[r].state = "open"
                THEN /\ tx' = [tx EXCEPT ![r].orders = @ \cup {row}]
                     /\ UNCHANGED orders
                ELSE /\ orders' = orders \cup {row}
                     /\ UNCHANGED tx
             /\ orders_id_seq' = orders_id_seq + 1
             /\ order' = [order EXCEPT ![r] = row]
             /\ calls' = [calls EXCEPT ![r] = Append(@, "INSERT order_items")]
             /\ pc' = [pc EXCEPT ![r] = "insertItems"]
        ELSE /\ tx' = [tx EXCEPT ![r] = Aborted(@)]
             /\ Catch(r)
             /\ UNCHANGED <<orders, orders_id_seq, order>>
    /\ UNCHANGED <<order_items, order_items_id_seq, checkedOut, req, user, client,
                   items, res, served>>
    /\ UNCHANGED outsideOrders

InsertItems(r) ==
    /\ pc[r] = "insertItems"
    /\ LET n == Len(ArgOrderItems(r))
           params == itemParams(order[r], ArgOrderItems(r)) IN
       \E ok \in BOOLEAN :
        IF ok /\ ItemsAccepted(params, n, tx[r])
        THEN /\ IF tx[r].state = "open"
                THEN /\ tx' = [tx EXCEPT ![r].items = @ \cup Range(ItemRows(params, n))]
                     /\ UNCHANGED order_items
                ELSE /\ order_items' = order_items \cup Range(ItemRows(params, n))
                     /\ UNCHANGED tx
             /\ order_items_id_seq' = order_items_id_seq + n
             /\ items' = [items EXCEPT ![r] = ItemRows(params, n)]
             /\ calls' = [calls EXCEPT ![r] = Append(@, "COMMIT")]
             /\ pc' = [pc EXCEPT ![r] = "commit"]
        ELSE /\ tx' = [tx EXCEPT ![r] = Aborted(@)]
             /\ Catch(r)
             /\ UNCHANGED <<order_items, order_items_id_seq, items>>
    /\ UNCHANGED <<orders, orders_id_seq, checkedOut, req, user, client, order,
                   res, served>>
    /\ UNCHANGED outsideOrders

\* the finally block: `client.release()`
Release(r) ==
    /\ client' = [client EXCEPT ![r] = Finally(@)]
    /\ checkedOut' = IF Finally(client[r]) = "released" THEN checkedOut - 1 ELSE checkedOut

\* COMMIT resolves: the rows of the transaction become visible, the client is
\* released and createOrderHandler answers 201.  COMMIT rejects: nothing of
\* the transaction is committed, and the catch block runs.
Commit(r) ==
    /\ pc[r] = "commit"
    /\ \E ok \in BOOLEAN :
        IF ok
        THEN /\ orders' = orders \cup tx[r].orders
             /\ order_items' = order_items \cup tx[r].items
             /\ tx' = [tx EXCEPT ![r] = NoTx]
             /\ Release(r)
             /\ calls' = [calls EXCEPT ![r] = Append(@, "release")]
             /\ res' = [res EXCEPT ![r] =
                   Response(201, "", "", <<WithItems(order[r], items[r])>>)]
             /\ pc' = [pc EXCEPT ![r] = "done"]
        ELSE /\ tx' = [tx EXCEPT ![r] = Aborted(@)]
             /\ Catch(r)
             /\ UNCHANGED <<orders, order_items, client, checkedOut, res>>
    /\ UNCHANGED <<orders_id_seq, order_items_id_seq, req, user, order, items, served>>
    /\ UNCHANGED outsideOrders

\* the catch block ending the transaction with COMMIT instead of ROLLBACK
RolledBackAsCommitted(t) == [orders |-> t.orders, items |-> t.items]

\* what a transaction leaves behind once it is rolled back
RolledBack(t) == [orders |-> {}, items |-> {}]

\* ROLLBACK resolves: createOrder throws Error('Failed to create order').
\* ROLLBACK rejects (the connection is lost, the server drops the
\* transaction): its own error leaves the catch block.  Either way the
\* finally block releases the client, and createOrderHandler answers 500 with
\* the message of the error it caught.
Rollback(r) ==
    /\ pc[r] = "rollback"
    /\ orders' = orders \cup RolledBack(tx[r]).orders
    /\ order_items' = order_items \cup RolledBack(tx[r]).items
    /\ tx' = [tx EXCEPT ![r] = NoTx]
    /\ Release(r)
    /\ calls' = [calls EXCEPT ![r] = Append(@, "release")]
    /\ \E ok \in BOOLEAN :
        res' = [res EXCEPT ![r] =
            Response(500, "Error creating order",
                     IF ok THEN "Failed to create order" ELSE RawDbError, <<>>)]
    /\ pc' = [pc EXCEPT ![r] = "done"]
    /\ UNCHANGED <<orders_id_seq, order_items_id_seq, req, user, order, items, served>>
    /\ UNCHANGED outsideOrders

GetOrders(r) ==
    /\ pc[r] = "handler"
    /\ req[r].kind = "list"
    /\ calls' = [calls EXCEPT ![r] = Append(@, "SELECT")]
    /\ pc' = [pc EXCEPT ![r] = "query"]
    /\ UNCHANGED <<dbVars, checkedOut, req, user, client, tx, order, items, res, served>>
    /\ UNCHANGED outsideOrders

\* a listing built from the rows that carry an item only, as an inner join
\* would return them
ListingOfJoinedRowsOnly(rows) ==
    ObjectValues(GroupRows(SelectSeq(rows, LAMBDA row : row.item_id # None), EmptyMap))

\* what getAllOrdersWithDetails returns for the rows of the query
ListingOf(rows) == ObjectValues(GroupRows(rows, EmptyMap))

\* getOrders answering 404 for a caller without orders
ListResponseNotFoundWhenEmpty(listed) ==
    IF listed = <<>> THEN Response(404, "No orders found", "", <<>>)
    ELSE Response(200, "", "", listed)

\* `res.json(orders)`
ListResponse(listed) == Response(200, "", "", listed)

\* a failure answer that passes the error of the datastore on
FetchFailureWithCause == Response(500, "Error fetching orders", RawDbError, <<>>)

\* getAllOrdersWithDetails throws Error('Failed to fetch orders') and getOrders
\* answers 500 with its message
FetchFailure == Response(500, "Error fetching orders", "Failed to fetch orders", <<>>)

\* `await pool.query(...)` of getAllOrdersWithDetails resolves or rejects
Query(r) ==
    /\ pc[r] = "query"
    /\ \/ \E rows \in Orderings(JoinRows(user[r])) :
            res' = [res EXCEPT ![r] = ListResponse(ListingOf(rows))]
       \/ res' = [res EXCEPT ![r] = FetchFailure]
    /\ pc' = [pc EXCEPT ![r] = "done"]
    /\ UNCHANGED <<dbVars, checkedOut, req, user, client, tx, order, items, calls, served>>
    /\ UNCHANGED outsideOrders

Next ==
    \E r \in Slots :
        \/ Receive(r)
        \/ AuthenticateToken(r)
        \/ CreateOrderHandler(r)
        \/ Connect(r)
        \/ Begin(r)
        \/ InsertOrder(r)
        \/ InsertItems(r)
        \/ Commit(r)
        \/ Rollback(r)
        \/ GetOrders(r)
        \/ Query(r)

Spec == Init /\ [][Next]_vars

----------------------------------------------------------------------------
(* The product catalog next to the orders: createProductHandler, createProduct *)

\* rows table products can hold in one behaviour
MaxProducts == 2

\* a product the catalog gets later
ItemOfNewProduct == RawItem(Some(2), Some(1), Some(1500))

CatalogRequests ==
    {Request("create", TokenOf(1), None, ArrayOf(<<ItemPlain>>)),
     Request("create", TokenOf(1), None, ArrayOf(<<ItemPlain, ItemDefaults>>)),
     Request("create", TokenOf(2), None, ArrayOf(<<ItemOfNewProduct>>)),
     Request("list", TokenOf(1), None, NoItems),
     Request("list", TokenOf(2), None, NoItems)}

\* req.body of POST /products: price in thousandths, stock
ProductBodies == [price : {0, 1500, 2504, -1000}, stock : {0, 5}]

\* `!name || typeof price !== 'number' || ... || price < 0 || stock < 0`
InvalidProduct(body) == body.price < 0 \/ body.stock < 0

\* POST /products with a verified token: a body that passes the check of
\* createProductHandler is inserted by the one statement of createProduct;
\* the statement is its own transaction.  A refused body (400) and a failed
\* insert (500) leave the table as it is.
CreateProductHandler ==
    /\ Cardinality(products) < MaxProducts
    /\ \E body \in ProductBodies :
        /\ ~InvalidProduct(body)
        /\ NumericFits(body.price)
        /\ products' = products \cup
              {[id |-> products_id_seq, price |-> Numeric(body.price),
                stock |-> body.stock]}
    /\ products_id_seq' = products_id_seq + 1
    /\ UNCHANGED <<orderVars, registerVars, browserVars, cartVars, groupingVars>>

CatalogNext ==
    \/ \E r \in Slots :
        \/ ReceiveFrom(r, CatalogRequests)
        \/ AuthenticateToken(r)
        \/ CreateOrderHandler(r)
        \/ Connect(r)
        \/ Begin(r)
        \/ InsertOrder(r)
        \/ InsertItems(r)
        \/ Commit(r)
        \/ Rollback(r)
        \/ GetOrders(r)
        \/ Query(r)
    \/ CreateProductHandler

SpecCatalog == Init /\ [][CatalogNext]_vars

----------------------------------------------------------------------------
(* getAllOrdersWithDetails as a function of the rows the query returns *)

\* headers of one user, as the join returns them
Header(id) == [id |-> id, user_id |-> 1, total |-> 3000, status |-> "pending"]

\* rows of a join over three orders: order 1 with two items, order 2 without
\* items (one row, item columns null), order 3 with one item
JoinRowPool ==
    {JoinRow(Header(1), Some(1), Some(1), Some(2), Some(1500)),
     JoinRow(Header(1), Some(2), Some(1), Some(1), Some(0)),
     JoinRow(Header(2), None, None, None, None),
     JoinRow(Header(3), Some(3), Some(1), Some(2), Some(1500))}

\* result.rows: the rows of any part of the pool, in any order
QueryResults == UNION {Orderings(S) : S \in SUBSET JoinRowPool}

GroupingSpecInit ==
    /\ OrdersInit
    /\ CatalogInit
    /\ RegisterInit
    /\ BrowserInit
    /\ CartInit
    /\ queryResult \in QueryResults
    /\ returned = None

\* lines 45-67 of getAllOrdersWithDetails on result.rows
GetAllOrdersWithDetails ==
    /\ returned = None
    /\ returned' = Some(ListingOf(queryResult))
    /\ UNCHANGED <<queryResult, orderVars, catalogVars, registerVars, browserVars, cartVars>>

GroupingNext == GetAllOrdersWithDetails

SpecGrouping == GroupingSpecInit /\ [][GroupingNext]_vars

----------------------------------------------------------------------------
(* Registration: register, findUserByUsername, createUser *)

\* register requests accepted in one behaviour
MaxRegistrations == 3

\* req.body of POST /auth/register: username ("" when missing) and the length
\* of the password (0 when missing)
Registrations ==
    {Registration("ana", 8), Registration("admin", 8), Registration("bo", 8),
     Registration("ana", 5), Registration("", 8), Registration("bo", 0)}

RegResponse(status, message, error) == Response(status, message, error, <<>>)

\* a register request arrives on a free flow
RegReceive(f) ==
    /\ regPc[f] \in {"idle", "done"}
    /\ registered < MaxRegistrations
    /\ \E q \in Registrations : regReq' = [regReq EXCEPT ![f] = q]
    /\ registered' = registered + 1
    /\ regPc' = [regPc EXCEPT ![f] = "register"]
    /\ regTx' = [regTx EXCEPT ![f] = NoUser]
    /\ regRes' = [regRes EXCEPT ![f] = NoResponse]
    /\ UNCHANGED <<users, users_id_seq>>
    /\ UNCHANGED <<orderVars, catalogVars, browserVars, cartVars, groupingVars>>

\* register up to `await findUserByUsername(username)`
Register(f) ==
    /\ regPc[f] = "register"
    /\ IF regReq[f].username = "" \/ regReq[f].passwordLength = 0
       THEN /\ regRes' = [regRes EXCEPT ![f] =
                  RegResponse(400, "Username and password are required", "")]
            /\ regPc' = [regPc EXCEPT ![f] = "done"]
       ELSE IF regReq[f].passwordLength < 8
       THEN /\ regRes' = [regRes EXCEPT ![f] =
                  RegResponse(400, "Password must be at least 8 characters long", "")]
            /\ regPc' = [regPc EXCEPT ![f] = "done"]
       ELSE /\ regPc' = [regPc EXCEPT ![f] = "find"]
            /\ UNCHANGED regRes
    /\ UNCHANGED <<users, users_id_seq, regReq, regTx, registered>>
    /\ UNCHANGED <<orderVars, catalogVars, browserVars, cartVars, groupingVars>>

\* the rows pool.query sees: the committed ones
ExistingUser(username) == {u \in users : u.username = username}

\* `await findUserByUsername(username)` resolves or rejects; register answers
\* 400 when a row was found and calls createUser otherwise
FindUserByUsername(f) ==
    /\ regPc[f] = "find"
    /\ \E ok \in BOOLEAN :
        IF ~ok
        THEN /\ regRes' = [regRes EXCEPT ![f] =
                   RegResponse(500, "Server error", "Database query failed")]
             /\ regPc' = [regPc EXCEPT ![f] = "done"]
        ELSE IF ExistingUser(regReq[f].username) # {}
        THEN /\ regRes' = [regRes EXCEPT ![f] =
                   RegResponse(400, "Username already exists", "")]
             /\ regPc' = [regPc EXCEPT ![f] = "done"]
        ELSE /\ regPc' = [regPc EXCEPT ![f] = "connect"]
             /\ UNCHANGED regRes
    /\ UNCHANGED <<users, users_id_seq, regReq, regTx, registered>>
    /\ UNCHANGED <<orderVars, catalogVars, browserVars, cartVars, groupingVars>>

\* `await pool.connect()` of createUser, outside its try block
RegConnect(f) ==
    /\ regPc[f] = "connect"
    /\ \E ok \in BOOLEAN :
        IF ok
        THEN /\ regPc' = [regPc EXCEPT ![f] = "begin"]
             /\ UNCHANGED regRes
        ELSE /\ regRes' = [regRes EXCEPT ![f] =
                   RegResponse(500, "Server error", RawDbError)]
             /\ regPc' = [regPc EXCEPT ![f] = "done"]
    /\ UNCHANGED <<users, users_id_seq, regReq, regTx, registered>>
    /\ UNCHANGED <<orderVars, catalogVars, browserVars, cartVars, groupingVars>>

\* `await client.query('BEGIN')`; the checks of createUser pass (register made
\* them already) and bcrypt.hash is awaited
RegBegin(f) ==
    /\ regPc[f] = "begin"
    /\ \E ok \in BOOLEAN :
        regPc' = [regPc EXCEPT ![f] = IF ok THEN "hash" ELSE "rollback"]
    /\ UNCHANGED <<users, users_id_seq, regReq, regTx, regRes, registered>>
    /\ UNCHANGED <<orderVars, catalogVars, browserVars, cartVars, groupingVars>>

\* `await bcrypt.hash(password, saltRounds)` resolves; the INSERT is issued
RegHash(f) ==
    /\ regPc[f] = "hash"
    /\ regPc' = [regPc EXCEPT ![f] = "insert"]
    /\ UNCHANGED <<users, users_id_seq, regReq, regTx, regRes, registered>>
    /\ UNCHANGED <<orderVars, catalogVars, browserVars, cartVars, groupingVars>>

\* another transaction holds an uncommitted row with this username: the
\* unique index makes the INSERT wait until that transaction ends
BlockedByPending(f) ==
    \E g \in Slots \ {f} : regTx[g] # NoUser /\ regTx[g].username = regReq[f].username

\* username VARCHAR(50) NOT NULL UNIQUE
UsernameFree(username) == ExistingUser(username) = {}

\* the INSERT INTO users resolves, or rejects with a unique violation (code
\* 23505) or for another reason
RegInsert(f) ==
    /\ regPc[f] = "insert"
    /\ ~BlockedByPending(f)
    /\ IF ~UsernameFree(regReq[f].username)
       THEN /\ regPc' = [regPc EXCEPT ![f] = "rollback 23505"]
            /\ UNCHANGED <<regTx, users_id_seq>>
       ELSE \E ok \in BOOLEAN :
            IF ok
            THEN /\ regTx' = [regTx EXCEPT ![f] =
                       [id |-> users_id_seq, username |-> regReq[f].username]]
                 /\ users_id_seq' = users_id_seq + 1
                 /\ regPc' = [regPc EXCEPT ![f] = "commit"]
            ELSE /\ regPc' = [regPc EXCEPT ![f] = "rollback"]
                 /\ UNCHANGED <<regTx, users_id_seq>>
    /\ UNCHANGED <<users, regReq, regRes, registered>>
    /\ UNCHANGED <<orderVars, catalogVars, browserVars, cartVars, groupingVars>>

\* COMMIT resolves: the row is committed, the client released, register signs
\* a token and answers 201.  COMMIT rejects: the catch block runs.
RegCommit(f) ==
    /\ regPc[f] = "commit"
    /\ \E ok \in BOOLEAN :
        IF ok
        THEN /\ users' = users \cup {regTx[f]}
             /\ regTx' = [regTx EXCEPT ![f] = NoUser]
             /\ regRes' = [regRes EXCEPT ![f] = RegResponse(201, "", "")]
             /\ regPc' = [regPc EXCEPT ![f] = "done"]
        ELSE /\ regPc' = [regPc EXCEPT ![f] = "rollback"]
             /\ UNCHANGED <<users, regTx, regRes>>
    /\ UNCHANGED <<users_id_seq, regReq, registered>>
    /\ UNCHANGED <<orderVars, catalogVars, browserVars, cartVars, groupingVars>>

\* the message of the error createUser throws after ROLLBACK
CreateUserError(code) ==
    IF code = "rollback 23505" THEN "Username already exists" ELSE "User creation failed"

\* `await client.query('ROLLBACK')` resolves (createUser throws its own error)
\* or rejects (the error of the datastore leaves createUser); the client is
\* released and the catch of register answers 500 with the message
RegRollback(f) ==
    /\ regPc[f] \in {"rollback", "rollback 23505"}
    /\ regTx' = [regTx EXCEPT ![f] = NoUser]
    /\ \E ok \in BOOLEAN :
        regRes' = [regRes EXCEPT ![f] =
            RegResponse(500, "Server error",
                        IF ok THEN CreateUserError(regPc[f]) ELSE RawDbError)]
    /\ regPc' = [regPc EXCEPT ![f] = "done"]
    /\ UNCHANGED <<users, users_id_seq, regReq, registered>>
    /\ UNCHANGED <<orderVars, catalogVars, browserVars, cartVars, groupingVars>>

RegisterNext ==
    \E f \in Slots :
        \/ RegReceive(f)
        \/ Register(f)
        \/ FindUserByUsername(f)
        \/ RegConnect(f)
        \/ RegBegin(f)
        \/ RegHash(f)
        \/ RegInsert(f)
        \/ RegCommit(f)
        \/ RegRollback(f)

SpecRegister == Init /\ [][RegisterNext]_vars

----------------------------------------------------------------------------
(* The browser: api (axios instance with its interceptors) and AuthProvider *)

\* response.data of a successful POST /auth/login
Sessions ==
    {[token |-> "token of ana", user |-> "ana", role |-> "waiter"],
     [token |-> "token of admin", user |-> "admin", role |-> "admin"]}

\* statuses the backend answers with
Statuses == {200, 401, 403, 500}

\* the request interceptor: the token under key 'token' when there is one,
\* else the default header of the instance
HeaderSent ==
    IF localStorage["token"] # Null THEN localStorage["token"] ELSE authorization

\* the response interceptor on status 401: removeItem('token'),
\* removeItem('user'), window.location.href = '/login'
OnUnauthorized ==
    /\ localStorage' = [localStorage EXCEPT !["token"] = Null, !["user"] = Null]
    /\ location' = "navigating to /login"

\* login: POST /auth/login resolved with the session s
LoginResolved(s) ==
    /\ localStorage' = [localStorage EXCEPT !["authToken"] = s.token,
                                              !["username"] = s.user,
                                              !["userRole"] = s.role]
    /\ auth' = [token |-> s.token, user |-> s.user, userRole |-> s.role]
    /\ authorization' = s.token
    /\ location' = IF location = "navigating to /login" THEN location ELSE "/dashboard"
    /\ UNCHANGED inFlight
    /\ UNCHANGED <<orderVars, catalogVars, registerVars, cartVars, groupingVars>>

\* login: POST /auth/login answered 401 'Invalid credentials'; the response
\* interceptor runs before login throws
LoginUnauthorized ==
    /\ OnUnauthorized
    /\ UNCHANGED <<auth, authorization, inFlight>>
    /\ UNCHANGED <<orderVars, catalogVars, registerVars, cartVars, groupingVars>>

Logout ==
    /\ auth.token # Null
    /\ localStorage' = [localStorage EXCEPT !["authToken"] = Null,
                                              !["username"] = Null,
                                              !["userRole"] = Null]
    /\ auth' = [token |-> Null, user |-> Null, userRole |-> Null]
    /\ authorization' = Null
    /\ location' = IF location = "navigating to /login" THEN location ELSE "/login"
    /\ UNCHANGED inFlight
    /\ UNCHANGED <<orderVars, catalogVars, registerVars, cartVars, groupingVars>>

\* a page sends a request through api
Send ==
    /\ HeaderSent \notin inFlight
    /\ inFlight' = inFlight \cup {HeaderSent}
    /\ UNCHANGED <<localStorage, auth, authorization, location>>
    /\ UNCHANGED <<orderVars, catalogVars, registerVars, cartVars, groupingVars>>

\* the response to the request sent with header h arrives with a status
Respond(h, status) ==
    /\ h \in inFlight
    /\ inFlight' = inFlight \ {h}
    /\ IF status = 401 THEN OnUnauthorized ELSE UNCHANGED <<localStorage, location>>
    /\ UNCHANGED <<auth, authorization>>
    /\ UNCHANGED <<orderVars, catalogVars, registerVars, cartVars, groupingVars>>

\* the document is loaded (after window.location.href was set, or because the
\* user reloads): the modules are evaluated anew, AuthProvider takes its
\* state from localStorage and its effect sets the default header
PageLoad ==
    /\ auth' = [token |-> localStorage["authToken"],
                user |-> localStorage["username"],
                userRole |-> localStorage["userRole"]]
    /\ authorization' = localStorage["authToken"]
    /\ location' = IF location = "navigating to /login" THEN "/login" ELSE location
    /\ inFlight' = {}
    /\ UNCHANGED localStorage
    /\ UNCHANGED <<orderVars, catalogVars, registerVars, cartVars, groupingVars>>

\* the routes of the application; /dashboard is behind ProtectedRoute
Pages ==
    {"/", "/login", "/register", "/products", "/create-product", "/create-order",
     "/dashboard"}

\* the router shows another page; the document is not loaded again
Navigate(page) ==
    /\ location # "navigating to /login"
    /\ page # location
    /\ page = "/dashboard" => auth.token # Null
    /\ location' = page
    /\ UNCHANGED <<localStorage, auth, authorization, inFlight>>
    /\ UNCHANGED <<orderVars, catalogVars, registerVars, cartVars, groupingVars>>

\* the response to one of the requests in flight arrives
ResponseArrives ==
    \E h \in inFlight, status \in Statuses : Respond(h, status)

BrowserNext ==
    \/ \E s \in Sessions : LoginResolved(s)
    \/ LoginUnauthorized
    \/ Logout
    \/ Send
    \/ ResponseArrives
    \/ PageLoad
    \/ \E page \in Pages : Navigate(page)

SpecBrowser == Init /\ [][BrowserNext]_vars

----------------------------------------------------------------------------
(* The cart of the CreateOrder page *)

\* the state `products` of the page: ids and stock
CartProducts ==
    <<[id |-> 1, stock |-> 0], [id |-> 2, stock |-> 1],
      [id |-> 3, stock |-> 3], [id |-> 4, stock |-> 3]>>

\* product ids the handlers are called with; 5 is no product of the list
OfferedIds == {1, 2, 3, 4, 5}

\* `list.find(e => e[key] === value)`: the first such element, as <<>> or <<e>>
Find(list, key, value) ==
    LET hits == SelectSeq(list, LAMBDA e : e[key] = value) IN
    IF hits = <<>> THEN None ELSE Some(Head(hits))

\* when handleAddItem calls alert()
AddItemAlerts(prevItems, productId) ==
    LET product == Find(CartProducts, "id", productId)
        existingItem == Find(prevItems, "productId", productId) IN
    /\ product # None
    /\ IF existingItem # None
       THEN existingItem[1].quantity + 1 > product[1].stock
       ELSE 1 > product[1].stock

\* an updater that lets the quantity reach stock + 1
handleAddItemOffByOne(prevItems, productId) ==
    LET product == Find(CartProducts, "id", productId)
        existingItem == Find(prevItems, "productId", productId) IN
    IF product = None THEN prevItems
    ELSE IF existingItem # None
    THEN IF existingItem[1].quantity > product[1].stock
         THEN prevItems
         ELSE [i \in DOMAIN prevItems |->
                 IF prevItems[i].productId = productId
                 THEN [prevItems[i] EXCEPT !.quantity = @ + 1]
                 ELSE prevItems[i]]
    ELSE IF 1 > product[1].stock
    THEN prevItems
    ELSE Append(prevItems, [productId |-> productId, quantity |-> 1])

\* the updater handleAddItem passes to setOrderItems
handleAddItem(prevItems, productId) ==
    LET product == Find(CartProducts, "id", productId)
        existingItem == Find(prevItems, "productId", productId) IN
    IF product = None THEN prevItems
    ELSE IF existingItem # None
    THEN IF existingItem[1].quantity + 1 > product[1].stock
         THEN prevItems
         ELSE [i \in DOMAIN prevItems |->
                 IF prevItems[i].productId = productId
                 THEN [prevItems[i] EXCEPT !.quantity = @ + 1]
                 ELSE prevItems[i]]
    ELSE IF 1 > product[1].stock
    THEN prevItems
    ELSE Append(prevItems, [productId |-> productId, quantity |-> 1])

\* the updater of handleDecreaseItem
handleDecreaseItem(prevItems, productId) ==
    LET existingItem == Find(prevItems, "productId", productId) IN
    IF existingItem # None
    THEN IF existingItem[1].quantity - 1 <= 0
         THEN SelectSeq(prevItems, LAMBDA item : item.productId # productId)
         ELSE [i \in DOMAIN prevItems |->
                 IF prevItems[i].productId = productId
                 THEN [prevItems[i] EXCEPT !.quantity = @ - 1]
                 ELSE prevItems[i]]
    ELSE prevItems

\* the updater of handleRemoveItem
handleRemoveItem(prevItems, productId) ==
    SelectSeq(prevItems, LAMBDA item : item.productId # productId)

HandleAddItem(productId) ==
    /\ cartItems' = handleAddItem(cartItems, productId)
    /\ alerted' = AddItemAlerts(cartItems, productId)
    /\ UNCHANGED <<orderVars, catalogVars, registerVars, browserVars, groupingVars>>

HandleDecreaseItem(productId) ==
    /\ cartItems' = handleDecreaseItem(cartItems, productId)
    /\ alerted' = FALSE
    /\ UNCHANGED <<orderVars, catalogVars, registerVars, browserVars, groupingVars>>

HandleRemoveItem(productId) ==
    /\ cartItems' = handleRemoveItem(cartItems, productId)
    /\ alerted' = FALSE
    /\ UNCHANGED <<orderVars, catalogVars, registerVars, browserVars, groupingVars>>

CartNext ==
    \E productId \in OfferedIds :
        \/ HandleAddItem(productId)
        \/ HandleDecreaseItem(productId)
        \/ HandleRemoveItem(productId)

SpecCart == Init /\ [][CartNext]_vars

----------------------------------------------------------------------------
(* Properties *)

Done(r) == pc[r] = "done"

\* the flow of slot r answered 201: createOrder returned an order
Created(r) == Done(r) /\ req[r].kind = "create" /\ res[r].status = 201

\* createOrder was entered and threw
CreateFailed(r) ==
    Done(r) /\ req[r].kind = "create" /\ res[r].status = 500

Issued(r, call) == \E i \in DOMAIN calls[r] : calls[r][i] = call

RECURSIVE SumOfItems(_)
SumOfItems(S) ==
    IF S = {} THEN 0
    ELSE LET x == CHOOSE y \in S : TRUE IN
         x.quantity * x.price_at_time + SumOfItems(S \ {x})

ItemsOf(orderId) == {i \in order_items : i.order_id = orderId}

\* a raw item the validation is documented to refuse
RefusedByContract(item) ==
    \/ item.quantity # None /\ item.quantity[1] <= 0
    \/ item.price_at_time # None /\ item.price_at_time[1] < 0

\* C1: the order createOrder returns has a total equal to the sum of
\* quantity * price_at_time over the order_items it returns, and as many
\* order_items as the request had items.
C1_ReturnedTotalIsSumOfReturnedItems ==
    \A r \in Slots :
        Created(r) =>
            LET o == res[r].body[1] IN
            /\ o.total = SumSeq([i \in DOMAIN o.order_items |->
                            o.order_items[i].quantity * o.order_items[i].price_at_time])
            /\ Len(o.order_items) = Len(req[r].body.orderItems.elems)

\* C2: a request with at least one item of quantity <= 0 (0 included) or of
\* price_at_time < 0 is answered 400 'Invalid order item data' and nothing
\* of it is persisted.
C2_BadEntryRejectsWholeRequest ==
    \A r \in Slots :
        (/\ Done(r)
         /\ req[r].kind = "create"
         /\ req[r].token.kind = "valid"
         /\ ~ItemsMissing(req[r].body.orderItems)
         /\ \E i \in DOMAIN req[r].body.orderItems.elems :
                RefusedByContract(req[r].body.orderItems.elems[i]))
        => /\ res[r].status = 400
           /\ res[r].message = "Invalid order item data"
           /\ order[r] = NoOrder
           /\ items[r] = <<>>

\* C3: a create-order request answered with a validation error (400) has
\* issued no datastore call at all: no pool.connect, no query.
C3_RejectedBeforeAnyDatastoreCall ==
    \A r \in Slots :
        (req[r].kind = "create" /\ res[r].status = 400) => calls[r] = <<>>

C3_Witness ==
    \E r \in Slots :
        /\ Done(r)
        /\ req[r].body.orderItems = ArrayOf(<<ItemPlain, ItemNegQty>>)
        /\ res[r].status = 400
        /\ res[r].message = "Invalid order item data"

\* C4: once createOrder has failed, no order row and no order_item row of
\* that request is visible in the datastore, whichever statement failed.
C4_FailedCreateLeavesNothing ==
    \A r \in Slots :
        CreateFailed(r) =>
            /\ \A o \in orders : o.id # order[r].id
            /\ \A i \in order_items : i.order_id # order[r].id
            /\ \A i \in order_items : \A k \in DOMAIN items[r] : i.id # items[r][k].id

\* the items insert failed after the header insert had succeeded
C4_Witness ==
    \E r \in Slots :
        /\ CreateFailed(r)
        /\ order[r] # NoOrder
        /\ calls[r] = <<"connect", "BEGIN", "INSERT orders", "INSERT order_items",
                        "ROLLBACK", "release">>

\* C5: every client createOrder acquires is released exactly once on every
\* exit path: the pool counts exactly the clients still held by flows inside
\* createOrder, a finished flow holds none and released once if and only if
\* it had acquired, and with no flow in flight no client is checked out.
C5_ClientReleasedOnEveryPath ==
    /\ checkedOut = Cardinality({r \in Slots : client[r] = "held"})
    /\ \A r \in Slots :
        Done(r) =>
            /\ client[r] # "held"
            /\ Cardinality({i \in DOMAIN calls[r] : calls[r][i] = "release"})
                 = (IF Issued(r, "BEGIN") THEN 1 ELSE 0)
    /\ (\A r \in Slots : pc[r] \in {"idle", "done"}) => checkedOut = 0

\* a flow whose ROLLBACK itself failed has finished
C5_Witness ==
    /\ \A r \in Slots : pc[r] \in {"idle", "done"}
    /\ \E r \in Slots :
        /\ CreateFailed(r)
        /\ Issued(r, "ROLLBACK")
        /\ res[r].error = RawDbError
        /\ client[r] = "released"

\* C6: every committed order's total equals the sum of quantity *
\* price_at_time over the committed order_items that reference it.
C6_CommittedTotalIsSumOfItems ==
    \A o \in orders : o.total = SumOfItems(ItemsOf(o.id))

\* C7: every committed order has at least one committed order_item.
C7_NoOrderWithoutItems ==
    \A o \in orders : ItemsOf(o.id) # {}

\* an order is committed while the header of a failed request was rolled back
C7_Witness ==
    /\ orders # {}
    /\ \E r \in Slots :
        /\ CreateFailed(r)
        /\ order[r] # NoOrder

\* C8: a listing answered to user A holds only orders of A, and holds every
\* order of A that is committed when the query runs.
C8_ListingIsTheCallersOrders ==
    [][\A r \in Slots :
        (pc[r] = "query" /\ pc'[r] = "done" /\ res'[r].status = 200) =>
            LET listed == res'[r].body IN
            /\ \A k \in DOMAIN listed : listed[k].user_id = req[r].token.id
            /\ {listed[k].id : k \in DOMAIN listed}
                 = {o.id : o \in {x \in orders : x.user_id = req[r].token.id}}]_vars

\* user 1 has listed a non-empty result while an order of user 2 is committed
C8_Witness ==
    \E r \in Slots :
        /\ Done(r)
        /\ req[r].kind = "list"
        /\ res[r].status = 200
        /\ res[r].body # <<>>
        /\ \E o \in orders : o.user_id # req[r].token.id

\* C9: the order a request commits carries as user_id the identity of the
\* token authenticateToken verified, whatever the body says.
C9_OwnerIsTheVerifiedIdentity ==
    \A r \in Slots :
        Created(r) =>
            /\ req[r].token.kind = "valid"
            /\ res[r].body[1].user_id = req[r].token.id
            /\ \E o \in orders : o.id = order[r].id /\ o.user_id = req[r].token.id

\* the body named another user than the token
C9_Witness ==
    \E r \in Slots :
        /\ Created(r)
        /\ req[r].body.user_id # None
        /\ req[r].body.user_id[1] # req[r].token.id

\* C10: an order returned by a listing is committed, belongs to no
\* transaction still in progress, and comes with all of its items: never a
\* header of an open transaction, with none or some of its items.
C10_ListingSeesNoUncommittedWork ==
    [][\A r \in Slots :
        (pc[r] = "query" /\ pc'[r] = "done" /\ res'[r].status = 200) =>
            \A k \in DOMAIN res'[r].body :
                LET o == res'[r].body[k] IN
                /\ \E c \in orders : c.id = o.id
                /\ \A s \in Slots :
                      pc[s] \in {"insertItems", "commit", "rollback"} => order[s].id # o.id
                /\ {o.order_items[j].id : j \in DOMAIN o.order_items}
                     = {i.id : i \in ItemsOf(o.id)}
                /\ o.order_items # <<>>]_vars

\* a listing of user u was answered while a transaction of the same user
\* held an inserted order and has not committed since: the listing returned
\* an order whose id was drawn after that of the open transaction
C10_Witness ==
    \E r, s \in Slots :
        /\ Done(r)
        /\ req[r].kind = "list"
        /\ res[r].status = 200
        /\ res[r].body # <<>>
        /\ pc[s] = "commit"
        /\ user[s] = user[r]
        /\ tx[s].orders # {}
        /\ tx[s].items # {}
        /\ \A k \in DOMAIN res[r].body : res[r].body[k].id # order[s].id
        /\ \E k \in DOMAIN res[r].body : res[r].body[k].id > order[s].id

\* C11: every order is persisted and returned with status 'pending', and
\* stays 'pending' in every reachable state: in the table, in an open
\* transaction, in the answer of createOrderHandler and in every listing.
C11_EveryOrderIsPending ==
    /\ \A o \in orders : o.status = "pending"
    /\ \A r \in Slots :
        /\ \A o \in tx[r].orders : o.status = "pending"
        /\ res[r].status \in {200, 201} =>
              \A k \in DOMAIN res[r].body : res[r].body[k].status = "pending"

\* an order is committed, returned by its request and shown by a listing
C11_Witness ==
    /\ orders # {}
    /\ \E r, s \in Slots :
        /\ Created(r)
        /\ Done(s) /\ req[s].kind = "list" /\ res[s].body # <<>>

CountOf(r, call) == Cardinality({i \in DOMAIN calls[r] : calls[r][i] = call})

\* C12: an authenticated create-order request ends in exactly one of:
\* 201 with the order, 400 'Order items are required', 400 'Invalid order
\* item data', 500 'Error creating order'; it ends 500 if and only if
\* validation passed (createOrder was entered) and a datastore step failed;
\* a 400 is never the answer to a datastore failure.
C12_FourOutcomes ==
    \A r \in Slots :
        (Done(r) /\ req[r].kind = "create" /\ req[r].token.kind = "valid") =>
            /\ \/ res[r].status = 201 /\ Len(res[r].body) = 1
               \/ res[r].status = 400 /\ res[r].message = "Order items are required"
               \/ res[r].status = 400 /\ res[r].message = "Invalid order item data"
               \/ res[r].status = 500 /\ res[r].message = "Error creating order"
            /\ res[r].status = 500 <=> (calls[r] # <<>> /\ res[r].status # 201)
            /\ res[r].status = 400 => calls[r] = <<>>

\* C13: when a datastore step of order creation fails, the answer does not
\* contain the error text of the datastore.
C13_NoDatastoreTextInAnswer ==
    \A r \in Slots :
        (Done(r) /\ req[r].kind = "create") => res[r].error # RawDbError

\* C14: createOrder never retries: one request issues each of its statements
\* at most once, so the header inserts that succeeded and the orders that are
\* committed never outnumber the requests.
C14_NoRetry ==
    /\ \A r \in Slots :
        \A c \in {"connect", "BEGIN", "INSERT orders", "INSERT order_items",
                  "COMMIT", "ROLLBACK", "release"} : CountOf(r, c) <= 1
    /\ orders_id_seq <= served + 1
    /\ Cardinality(orders) <= served

\* a statement of the transaction failed, the failure was surfaced, and the
\* header insert had been issued once
C14_Witness ==
    \E r \in Slots :
        /\ CreateFailed(r)
        /\ res[r].error = "Failed to create order"
        /\ CountOf(r, "INSERT orders") = 1
        /\ CountOf(r, "ROLLBACK") = 1

\* the ids of the rows in the order in which each first appears
RECURSIVE FirstSeenIds(_, _)
FirstSeenIds(rows, seen) ==
    IF rows = <<>> THEN <<>>
    ELSE IF Head(rows).id \in seen THEN FirstSeenIds(Tail(rows), seen)
    ELSE <<Head(rows).id>> \o FirstSeenIds(Tail(rows), seen \cup {Head(rows).id})

IdsOf(listed) == [k \in DOMAIN listed |-> listed[k].id]

\* the item ids of order id in the order in which the rows carry them
RowItemIds(rows, id) ==
    LET mine == SelectSeq(rows, LAMBDA row : row.id = id /\ row.item_id # None) IN
    [k \in DOMAIN mine |-> mine[k].item_id[1]]

\* the step in which the query of flow r resolves with rows
Listed(r) == pc[r] = "query" /\ pc'[r] = "done" /\ res'[r].status = 200

\* C15: for every order in which the join returns its rows, the listing
\* holds the orders in the order in which their ids first appear among the
\* rows, and the items of each order in the order of the rows.
C15_ListingInFirstSeenOrder ==
    [][\A r \in Slots :
        Listed(r) =>
            \A rows \in Orderings(JoinRows(user[r])) :
                res'[r].body = ListingOf(rows) =>
                    /\ IdsOf(res'[r].body) = FirstSeenIds(rows, {})
                    /\ \A k \in DOMAIN res'[r].body :
                          IdsOf(res'[r].body[k].order_items)
                            = RowItemIds(rows, res'[r].body[k].id)]_vars

\* C16: normalization replaces quantity by 1 and price_at_time by 0 exactly
\* when the field is absent; a value the client supplied, 0 included, reaches
\* the filter unchanged.
C16_DefaultsOnlyWhenAbsent ==
    \A r \in Slots :
        req[r].kind = "create" =>
            \A i \in DOMAIN req[r].body.orderItems.elems :
                LET raw == req[r].body.orderItems.elems[i] IN
                ~raw.null =>
                    /\ NormalizeItem(raw).quantity
                         = (IF raw.quantity = None THEN 1 ELSE raw.quantity[1])
                    /\ NormalizeItem(raw).price_at_time
                         = (IF raw.price_at_time = None THEN 0 ELSE raw.price_at_time[1])

\* C17: a request with an item without product_id is answered with a client
\* error (400) before any datastore call.
C17_MissingProductIdIsClientError ==
    \A r \in Slots :
        (/\ Done(r)
         /\ req[r].kind = "create"
         /\ req[r].token.kind = "valid"
         /\ \E i \in DOMAIN req[r].body.orderItems.elems :
                LET raw == req[r].body.orderItems.elems[i] IN
                ~raw.null /\ raw.product_id = None)
        => res[r].status = 400 /\ calls[r] = <<>>

OrdersOfUser(u) == {o \in orders : o.user_id = u}

\* C18: when the query resolves for a caller without committed orders,
\* getOrders answers 200 with an empty list.
C18_NoOrdersIsAnEmptyList ==
    [][\A r \in Slots :
        (/\ pc[r] = "query" /\ pc'[r] = "done"
         /\ OrdersOfUser(req[r].token.id) = {}
         /\ res'[r].error # "Failed to fetch orders")
        => res'[r].status = 200 /\ res'[r].body = <<>>]_vars

\* a caller without orders was answered while another user has one
C18_Witness ==
    \E r \in Slots :
        /\ Done(r)
        /\ req[r].kind = "list"
        /\ res[r].status = 200
        /\ res[r].body = <<>>
        /\ OrdersOfUser(req[r].token.id) = {}
        /\ orders # {}

\* the results the query of user u can have in the current state
PossibleListings(u) == {ListingOf(rows) : rows \in Orderings(JoinRows(u))}

\* C19: a listing leaves the datastore unchanged, and it returns the very
\* result an earlier listing of the same user returned when nothing that
\* user can see was committed in between.
C19_ListingIsIdempotent ==
    [][\A r \in Slots :
        Listed(r) =>
            /\ UNCHANGED dbVars
            /\ \A s \in Slots \ {r} :
                (/\ Done(s)
                 /\ req[s].kind = "list"
                 /\ res[s].status = 200
                 /\ req[s].token.id = req[r].token.id
                 /\ res[s].body \in PossibleListings(user[r]))
                => res'[r].body = res[s].body]_vars

\* C20: a listing that fails is answered 500 with the generic fetch failure
\* and no orders; no answer carries an error together with orders.
C20_FetchFailureHasNoOrders ==
    \A r \in Slots :
        (Done(r) /\ req[r].kind = "list" /\ req[r].token.kind = "valid") =>
            /\ res[r].status \in {200, 500}
            /\ res[r].status = 500 =>
                  /\ res[r].message = "Error fetching orders"
                  /\ res[r].error = "Failed to fetch orders"
                  /\ res[r].body = <<>>
            /\ res[r].status = 200 => res[r].error = "" /\ res[r].message = ""

\* the query of a user who has a committed order failed
C20_Witness ==
    \E r \in Slots :
        /\ Done(r)
        /\ req[r].kind = "list"
        /\ res[r].status = 500
        /\ OrdersOfUser(req[r].token.id) # {}

\* the items a listing shows, over all its orders
ShownItems(listed) ==
    UNION {Range(listed[k].order_items) : k \in DOMAIN listed}

\* C30: a committed order and its committed items are never changed or
\* removed by a later step (creates that commit, fail or roll back, created
\* products, listings), and every item a listing shows is a stored row, with
\* the price_at_time stored at creation.
C30_CommittedOrdersAreFrozen ==
    [][/\ \A o \in orders : o \in orders'
       /\ \A oi \in order_items : oi \in order_items'
       /\ \A o1, o2 \in orders' : o1.id = o2.id => o1 = o2
       /\ \A i1, i2 \in order_items' : i1.id = i2.id => i1 = i2
       /\ \A r \in Slots :
            Listed(r) => ShownItems(res'[r].body) \subseteq order_items]_vars

\* an order was committed at a price that differs from the catalog's, a
\* product was created since, a create failed, and a listing shows the order
C30_Witness ==
    /\ \E p \in products : p.id \notin Catalog
    /\ \E r \in Slots :
        /\ Done(r)
        /\ req[r].kind = "list"
        /\ res[r].status = 200
        /\ \E oi \in ShownItems(res[r].body) :
              /\ oi \in order_items
              /\ \E p \in products : p.id = oi.product_id /\ p.price # oi.price_at_time
    /\ \E s \in Slots : CreateFailed(s) /\ Issued(s, "ROLLBACK")

\* C21: authenticateToken answers 401 without a 'Bearer ' header, 403 for a
\* token that fails verification or whose payload has no id, and otherwise
\* calls next() with req.user the verified payload; only in the last case is
\* a handler reached, so no datastore call is made for an unverified caller.
C21_OnlyVerifiedCallersReachHandlers ==
    \A r \in Slots :
        /\ pc[r] \notin {"idle", "auth"} =>
            \/ /\ req[r].token.kind = "none"
               /\ Done(r) /\ res[r].status = 401
               /\ res[r].message = "No token or invalid format"
               /\ user[r] = 0
            \/ /\ req[r].token.kind \in {"invalid", "noid"}
               /\ Done(r) /\ res[r].status = 403
               /\ user[r] = 0
            \/ /\ req[r].token.kind = "valid"
               /\ user[r] = req[r].token.id
               /\ res[r].status \notin {401, 403}
        /\ (calls[r] # <<>> \/ res[r].body # <<>>) => req[r].token.kind = "valid"

\* a token without id was refused and a verified caller's order was created
C21_Witness ==
    \E r, s \in Slots :
        /\ Done(r) /\ req[r].token.kind = "noid" /\ res[r].status = 403
        /\ Created(s)

\* the calls of a createOrder in which nothing fails
HappyCalls ==
    <<"connect", "BEGIN", "INSERT orders", "INSERT order_items", "COMMIT", "release">>

\* the call sequences of createOrder: a prefix of HappyCalls, or the calls up
\* to a statement of the transaction, then ROLLBACK, then release
CallSequences ==
    {SubSeq(HappyCalls, 1, k) : k \in 0..Len(HappyCalls)}
    \cup {SubSeq(HappyCalls, 1, k) \o tail :
            k \in 2..5, tail \in {<<"ROLLBACK">>, <<"ROLLBACK", "release">>}}

\* C25: the calls of one createOrder are issued in the order connect, BEGIN,
\* header insert, items insert, COMMIT, each after the one before resolved;
\* after a failed statement the next call is ROLLBACK, then release, never
\* COMMIT; a failure inside the transaction is answered only after ROLLBACK
\* was issued.
C25_StatementsInOrder ==
    \A r \in Slots :
        req[r].kind = "create" =>
            /\ calls[r] \in CallSequences
            /\ tx[r].state = "aborted" => calls[r][Len(calls[r])] = "ROLLBACK"
            /\ pc[r] = "insertOrder" => calls[r] = SubSeq(HappyCalls, 1, 3)
            /\ pc[r] = "insertItems" => calls[r] = SubSeq(HappyCalls, 1, 4) /\ order[r] # NoOrder
            /\ pc[r] = "commit" => calls[r] = SubSeq(HappyCalls, 1, 5) /\ items[r] # <<>>
            /\ (CreateFailed(r) /\ Issued(r, "BEGIN")) =>
                  /\ Issued(r, "ROLLBACK")
                  /\ calls[r][Len(calls[r])] = "release"

\* COMMIT failed: ROLLBACK and release followed it
C25_Witness ==
    \E r \in Slots :
        /\ CreateFailed(r)
        /\ calls[r] = SubSeq(HappyCalls, 1, 5) \o <<"ROLLBACK", "release">>

\* the rows of order_items that reference order id
CommittedItemsOf(id) == {oi \in order_items : oi.order_id = id}

\* C26: every item a createOrder call inserts references the header that
\* call inserted; under any interleaving of calls, a committed order has
\* exactly the items of its own request.
C26_ItemsBelongToTheirOwnOrder ==
    /\ \A oi \in order_items : \E o \in orders : o.id = oi.order_id
    /\ \A r \in Slots :
        /\ \A i \in DOMAIN items[r] : items[r][i].order_id = order[r].id
        /\ \A oi \in tx[r].items : \E o \in tx[r].orders : o.id = oi.order_id
        /\ Created(r) =>
              /\ CommittedItemsOf(order[r].id) = Range(items[r])
              /\ Cardinality(CommittedItemsOf(order[r].id)) = Len(ArgOrderItems(r))

\* two calls interleaved: the one that inserted its header first inserted its
\* items last, and both committed
C26_Witness ==
    \E r, s \in Slots :
        /\ Created(r) /\ Created(s)
        /\ order[r].id < order[s].id
        /\ items[s][1].id < items[r][1].id

\* C27: the i-th row of the batched insert has the product_id, quantity and
\* price_at_time of the i-th validated input item, for every position i.
C27_RowsFollowInputPositions ==
    \A r \in Slots :
        Created(r) =>
            LET valid == ArgOrderItems(r) IN
            /\ Len(items[r]) = Len(valid)
            /\ \A i \in DOMAIN valid :
                /\ items[r][i] \in order_items
                /\ items[r][i].product_id = valid[i].product_id[1]
                /\ items[r][i].quantity = valid[i].quantity
                /\ items[r][i].price_at_time = valid[i].price_at_time

\* a raw item without what the client wrote into id and order_id
StripIds(item) == [item EXCEPT !.id = None, !.order_id = None]

StripAll(elems) == [i \in DOMAIN elems |-> StripIds(elems[i])]

\* two requests that differ at most in the id / order_id of their items
SameButIds(q1, q2) ==
    /\ q1.kind = q2.kind
    /\ q1.token = q2.token
    /\ q1.body.user_id = q2.body.user_id
    /\ q1.body.orderItems.kind = q2.body.orderItems.kind
    /\ StripAll(q1.body.orderItems.elems) = StripAll(q2.body.orderItems.elems)

\* a persisted row without its datastore-generated ids
WithoutIds(row) == [row EXCEPT !.id = 0, !.order_id = 0]

\* C29: the id and order_id of a raw item influence neither the validation
\* outcome nor what is persisted: what createOrder sends for a request is
\* what it sends for the request without those fields, and two requests that
\* differ only in them and both commit persist the same order and items
\* apart from generated ids.
C29_RawIdsAreIgnored ==
    /\ \A r \in Slots :
        (req[r].kind = "create" /\ ~ItemsMissing(req[r].body.orderItems)
            /\ ~MapThrows(req[r].body.orderItems.elems)) =>
            LET elems == req[r].body.orderItems.elems
                valid == ValidItems(elems)
                plain == ValidItems(StripAll(elems)) IN
            /\ Len(valid) = Len(plain)
            /\ itemValues(valid) = itemValues(plain)
            /\ total(valid) = total(plain)
    /\ \A r, s \in Slots :
        SameButIds(req[r], req[s]) =>
            /\ (Done(r) /\ Done(s)) =>
                  (res[r].status = 400) = (res[s].status = 400)
            /\ (Created(r) /\ Created(s)) =>
                  /\ [order[r] EXCEPT !.id = 0] = [order[s] EXCEPT !.id = 0]
                  /\ [i \in DOMAIN items[r] |-> WithoutIds(items[r][i])]
                       = [i \in DOMAIN items[s] |-> WithoutIds(items[s][i])]

\* the same items were committed once with and once without id / order_id
C29_Witness ==
    \E r, s \in Slots :
        /\ Created(r) /\ Created(s)
        /\ SameButIds(req[r], req[s])
        /\ req[r].body.orderItems.elems[1].id # None
        /\ req[s].body.orderItems.elems[1].id = None

\* C22: a registration whose username already exists is answered 400
\* 'Username already exists' under every interleaving of register requests,
\* and no username ever has two rows.
C22_DuplicateUsernameIsRefused400 ==
    /\ \A u1, u2 \in users : u1.username = u2.username => u1 = u2
    /\ \A f \in Slots :
        (/\ regPc[f] = "done"
         /\ "Username already exists" \in {regRes[f].message, regRes[f].error})
        => /\ regRes[f].status = 400
           /\ regRes[f].message = "Username already exists"

\* the keys login stores the session under
SessionKeys == {"authToken", "username", "userRole"}

\* C23: in the step in which the API client receives a 401, the token and the
\* user data login stored are removed from localStorage, so that the state
\* AuthProvider takes from localStorage after the redirect is unauthenticated.
C23_UnauthorizedClearsTheSession ==
    [][(LoginUnauthorized \/ \E h \in inFlight : Respond(h, 401)) =>
          \A k \in SessionKeys : localStorage'[k] = Null]_vars

\* the quantity of product id in a cart, 0 when it has no entry
CartQuantity(its, id) ==
    LET entry == Find(its, "productId", id) IN
    IF entry = None THEN 0 ELSE entry[1].quantity

\* the stock of product id, 0 when the list has no such product
Stock(id) ==
    LET product == Find(CartProducts, "id", id) IN
    IF product = None THEN 0 ELSE product[1].stock

\* one entry per product, each with 1 <= quantity <= stock
CartWellFormed(its) ==
    /\ \A i, j \in DOMAIN its : its[i].productId = its[j].productId => i = j
    /\ \A i \in DOMAIN its :
          1 <= its[i].quantity /\ its[i].quantity <= Stock(its[i].productId)

\* the entries of the other products are the same in both carts
OthersKept(before, after, id) ==
    \A other \in OfferedIds \ {id} :
        CartQuantity(after, other) = CartQuantity(before, other)

\* C24: every cart reached by handleAddItem, handleDecreaseItem and
\* handleRemoveItem has at most one entry per product and 1 <= quantity <=
\* stock; from every such cart handleAddItem stays within stock and adds
\* neither a product without stock nor an unknown one, handleDecreaseItem
\* removes an entry of quantity 1, and handleRemoveItem removes the entry.
C24_CartStaysWithinStock ==
    /\ CartWellFormed(cartItems)
    /\ \A id \in OfferedIds :
        LET added == handleAddItem(cartItems, id)
            decreased == handleDecreaseItem(cartItems, id)
            removed == handleRemoveItem(cartItems, id)
            had == CartQuantity(cartItems, id) IN
        /\ CartWellFormed(added)
        /\ CartQuantity(added, id) = (IF had < Stock(id) THEN had + 1 ELSE had)
        /\ Stock(id) = 0 => added = cartItems
        /\ OthersKept(cartItems, added, id)
        /\ CartWellFormed(decreased)
        /\ CartQuantity(decreased, id) = (IF had > 0 THEN had - 1 ELSE 0)
        /\ had = 1 => Len(decreased) = Len(cartItems) - 1
        /\ OthersKept(cartItems, decreased, id)
        /\ CartWellFormed(removed)
        /\ CartQuantity(removed, id) = 0
        /\ had > 0 => Len(removed) = Len(cartItems) - 1
        /\ OthersKept(cartItems, removed, id)

\* a cart with two products, one of them at its stock, after an add that was
\* refused
C24_Witness ==
    /\ Len(cartItems) >= 2
    /\ alerted
    /\ \E i \in DOMAIN cartItems :
          cartItems[i].quantity = Stock(cartItems[i].productId)
          /\ cartItems[i].quantity > 1

\* the rows of result.rows that belong to order id and carry an item
ItemRowsOf(result, id) ==
    {i \in DOMAIN result : result[i].id = id /\ result[i].item_id # None}

\* C28: every order id among the rows appears once in the result, and each
\* order has as many items as it has rows with an item id: an order whose
\* only row has a null item id is returned with an empty order_items.
C28_OrderWithoutItemsIsKept ==
    returned # None =>
        LET listed == returned[1] IN
        /\ {listed[k].id : k \in DOMAIN listed}
             = {queryResult[i].id : i \in DOMAIN queryResult}
        /\ \A k, l \in DOMAIN listed : listed[k].id = listed[l].id => k = l
        /\ \A k \in DOMAIN listed :
              Len(listed[k].order_items)
                = Cardinality(ItemRowsOf(queryResult, listed[k].id))

\* the order without items was returned, next to an order with items
C28_Witness ==
    /\ returned # None
    /\ \E k, l \in DOMAIN returned[1] :
          /\ returned[1][k].order_items = <<>>
          /\ returned[1][l].order_items # <<>>
    /\ \E i \in DOMAIN queryResult : queryResult[i].item_id = None

====
